---- MODULE Spec2Model ----
(***************************************************************************)
(* Episode stepper and context truncator of ContextAwareQuantumEnvironment *)
(* (src/rl_qoc/context_aware_quantum_environment.py): reset(), step(),     *)
(* the truncation-selection property trunc_index, the ragged action        *)
(* buffer _param_values, the observation _get_obs(),                       *)
(* define_target_and_circuits() and set_circuit_context().                 *)
(*                                                                         *)
(* Numbers: a score or reward is a record, Fin(v) with v in millionths     *)
(* (1000000 stands for 1.0), or NaN, or Inf.  Index conventions follow the *)
(* source: levels, rows, batch elements and action components are 0-based. *)
(*                                                                         *)
(* The last section is the training loop of the script                     *)
(* src/paper_results/yale_model_free_two_level_system_example.py, which    *)
(* runs on its own: its variables hold the policy parameters, as integers  *)
(* counted in optimizer steps.                                             *)
(***************************************************************************)
EXTENDS Integers, Sequences, FiniteSets, TLC

\* ---------------------------------------------------------------- bounds
MaxK == 3               \* most occurrences of the target gate in a context
MaxStepsPerGate == 2    \* largest training_steps_per_gate tried
MaxStepTracker == 4     \* step() is not called once _step_tracker reaches this
BatchSize == 2          \* the configured batch size
NActions == 1           \* the configured action dimension
MaxSeed == 2            \* distinct action batches offered to step()
NumInputStates == 2     \* len(self.target.input_states)

VARIABLES
    circuit_context,        \* self._circuit_context: [data, op_start_times,
                            \*   parameters]
    op_start_times,         \* self._op_start_times
    target_instruction_timings, \* self._target_instruction_timings
    parameters,             \* self._parameters
    target,                 \* self._target
    circuits,               \* self.circuits
    baseline_circuits,      \* self.baseline_circuits
    backend,                \* self.backend
    physical_neighbor_qubits,       \* self._physical_neighbor_qubits
    physical_next_neighbor_qubits,  \* self._physical_next_neighbor_qubits
    unbound_circuit_context,\* self._unbound_circuit_context
    training_steps_per_gate,\* self._training_steps_per_gate
    intermediate_rewards,   \* self._intermediate_rewards
    reward_method,          \* self.config.reward_method
    param_values,           \* self._param_values
    inside_trunc_tracker,   \* self._inside_trunc_tracker
    step_tracker,           \* self._step_tracker
    episode_ended,          \* self._episode_ended
    max_return,             \* self._max_return, as batch_size * mean
    index_input_state,      \* self._index_input_state
    ret,                    \* outcome of the last call made
    hist,                   \* history of the calls made (not program state)
    mu,                     \* script: mu
    sigma,                  \* script: sigma
    mu_old,                 \* script: mu_old
    sigma_old,              \* script: sigma_old
    combined_grads,         \* script: combined_grads for <<mu, sigma>>
    epoch,                  \* script: the loop variable i
    script_pc,              \* script: where the loop body stands
    script_hist             \* what the ratio read (not program state)

\* What a context update may assign and reset()/step() only read.
context_vars == <<circuit_context, op_start_times, target_instruction_timings,
                  parameters, target, circuits, baseline_circuits, backend,
                  physical_neighbor_qubits, physical_next_neighbor_qubits,
                  unbound_circuit_context>>

script_vars == <<mu, sigma, mu_old, sigma_old, combined_grads, epoch,
                 script_pc, script_hist>>

vars == <<context_vars, training_steps_per_gate,
          intermediate_rewards, reward_method, param_values,
          inside_trunc_tracker, step_tracker, episode_ended, max_return,
          index_input_state, ret, hist, script_vars>>

config_vars == <<training_steps_per_gate, intermediate_rewards, reward_method>>

\* ------------------------------------------------------------------ numbers
Fin(v) == [kind |-> "fin", v |-> v]
NaN == [kind |-> "nan", v |-> 0]
Inf == [kind |-> "inf", v |-> 0]
NegInf == [kind |-> "neginf", v |-> 0]

Min(a, b) == IF a <= b THEN a ELSE b

\* np.isinf / np.isnan of one component
isinf(x) == x.kind \in {"inf", "neginf"}
isnan(x) == x.kind = "nan"

\* IEEE addition of two components
Add(x, y) ==
    IF isnan(x) \/ isnan(y) THEN NaN
    ELSE IF isinf(x) /\ isinf(y) THEN (IF x.kind = y.kind THEN x ELSE NaN)
    ELSE IF isinf(x) THEN x
    ELSE IF isinf(y) THEN y
    ELSE Fin(x.v + y.v)

\* IEEE x > y (false as soon as one side is NaN)
Gt(x, y) ==
    IF isnan(x) \/ isnan(y) THEN FALSE
    ELSE IF x.kind = "inf" THEN y.kind # "inf"
    ELSE IF x.kind = "neginf" THEN FALSE
    ELSE IF y.kind = "inf" THEN FALSE
    ELSE IF y.kind = "neginf" THEN TRUE
    ELSE x.v > y.v

RECURSIVE SumSeq(_)
SumSeq(s) == IF s = <<>> THEN Fin(0) ELSE Add(Head(s), SumSeq(Tail(s)))

\* np.zeros(n) as a vector of rewards
zeros(n) == [b \in 1..n |-> Fin(0)]

\* ------------------------------------------------------------ configuration
batch_size == BatchSize     \* self.batch_size
n_actions == NActions       \* self.action_space.shape[-1]

\* ----------------------------------------------------------- circuit context
\* A context is a scheduled circuit on the qubits 0..2: its instructions
\* (data), their start times, and the names of its unassigned parameters.
\* training_config.physical_qubits
physical_target_qubits == <<0>>
\* [circuit_context.qubits[i] for i in physical_target_qubits]
circ_tgt_register == physical_target_qubits

\* The target instruction: the target gate on the target register (qubit 0).
target_instruction == [op |-> "tgt", qubits |-> <<0>>]
neighbor_instruction == [op |-> "cx", qubits |-> <<0, 1>>]

\* A scheduled context with k occurrences of the target, a two-qubit gate
\* between consecutive occurrences, one instruction per scheduler tick.
Context(k) ==
    [data |-> [p \in 1..(2 * k - 1) |->
                  IF p % 2 = 1 THEN target_instruction ELSE neighbor_instruction],
     op_start_times |-> [p \in 1..(2 * k - 1) |-> p - 1],
     parameters |-> {}]

Contexts == {Context(k) : k \in 1..MaxK}

\* circuit_context.data.count(self.target_instruction)
tgt_instruction_counts ==
    Cardinality({p \in DOMAIN circuit_context.data :
                    circuit_context.data[p] = target_instruction})

RECURSIVE TimingsFrom(_, _, _)
TimingsFrom(data, times, p) ==
    IF p > Len(data) THEN <<>>
    ELSE (IF data[p] = target_instruction THEN <<times[p]>> ELSE <<>>)
         \o TimingsFrom(data, times, p + 1)

\* target_instruction_timings(context, target_instruction): the context's
\* start times and those of the target occurrences in program order (a
\* sequence; the 0-based index i of the source is i + 1 here).
instruction_timings(context) ==
    <<context.op_start_times,
      TimingsFrom(context.data, context.op_start_times, 1)>>

\* ------------------------------------------------------------------ backend
InSeq(seq, x) == \E p \in DOMAIN seq : seq[p] = x
IndexIn(seq, x) == (CHOOSE p \in DOMAIN seq : seq[p] = x) - 1   \* list.index
SeqRange(seq) == {seq[p] : p \in DOMAIN seq}

RECURSIVE SortedSeq(_)
SortedSeq(S) ==
    IF S = {} THEN <<>>
    ELSE LET m == CHOOSE x \in S : \A y \in S : x <= y
         IN  <<m>> \o SortedSeq(S \ {m})

\* Two backends for the three qubits: a line 0-1-2 and a line 0-2-1.
Backends == {"line_012", "line_021"}
coupling_map(be) ==
    IF be = "line_012" THEN {<<0, 1>>, <<1, 2>>} ELSE {<<0, 2>>, <<2, 1>>}

\* retrieve_neighbor_qubits(coupling_map, target_qubits): the qubits coupled
\* to one of target_qubits that are not among them.
retrieve_neighbor_qubits(coupling, target_qubits) ==
    SortedSeq({q \in 0..2 :
                 /\ ~InSeq(target_qubits, q)
                 /\ \E t \in SeqRange(target_qubits) :
                       <<t, q>> \in coupling \/ <<q, t>> \in coupling})

neighbors_of(be) == retrieve_neighbor_qubits(coupling_map(be), physical_target_qubits)
next_neighbors_of(be) ==
    retrieve_neighbor_qubits(coupling_map(be),
                             physical_target_qubits \o neighbors_of(be))

\* ---------------------------------------------------------------- truncator
\* One placeholder vector, a_0, listed k times.
parameter_vectors_same(k) == [j \in 0..(k - 1) |-> [name |-> "a", j |-> 0, len |-> n_actions]]

\* [ParameterVector(f"a_{j}", n_actions) for j in range(k)]
parameter_vectors(k) == [j \in 0..(k - 1) |-> [name |-> "a", j |-> j, len |-> n_actions]]

\* mapping[qubit]: the register bit of the sub-programs that stands for a
\* context qubit; in the dict comprehension a later register wins.
mapping(qubit, circ_nn_qubits, circ_anc_qubits) ==
    IF InSeq(circ_anc_qubits, qubit) THEN <<"anc", IndexIn(circ_anc_qubits, qubit)>>
    ELSE IF InSeq(circ_nn_qubits, qubit) THEN <<"nn", IndexIn(circ_nn_qubits, qubit)>>
    ELSE <<"tgt", IndexIn(circ_tgt_register, qubit)>>

mapped(instruction, nn, anc) ==
    [op |-> instruction.op,
     qubits |-> [p \in DOMAIN instruction.qubits |->
                    mapping(instruction.qubits[p], nn, anc)],
     params |-> <<>>]

\* the tgt register and the layout every occurrence starts from
tgt_register == [p \in DOMAIN physical_target_qubits |-> <<"tgt", p - 1>>]
initial_layout == {<<tgt_register[p], physical_target_qubits[p]>> :
                      p \in DOMAIN physical_target_qubits}

involves_target_qubits(instruction, circ_nn_qubits) ==
    \E q \in SeqRange(instruction.qubits) :
        InSeq(circ_tgt_register, q) \/ InSeq(circ_nn_qubits, q)

involved_qubits(instruction, circ_nn_qubits) ==
    IF involves_target_qubits(instruction, circ_nn_qubits)
    THEN SelectSeq(instruction.qubits, LAMBDA q : ~InSeq(circ_tgt_register, q))
    ELSE <<>>

\* An admission test that ignores where the occurrence is.
admitted_anywhere(counts, i, start_time, timings, instruction, circ_nn_qubits) ==
    involves_target_qubits(instruction, circ_nn_qubits)

\* The test of lines 239-241: the instruction goes into sub-program i.
admitted(counts, i, start_time, timings, instruction, circ_nn_qubits) ==
    /\ (counts <= i \/ start_time <= timings[i + 1])
    /\ involves_target_qubits(instruction, circ_nn_qubits)

\* Register bits added for every qubit of an admitted instruction, whether
\* or not the sub-program has the bit already.
RECURSIVE add_bits_always(_, _, _, _)
add_bits_always(trunc, qubits, nn, anc) ==
    IF qubits = <<>> THEN trunc
    ELSE LET qubit == Head(qubits)
             bit == mapping(qubit, nn, anc)
             physical_qubits == IF InSeq(nn, qubit) THEN nn ELSE anc
             added ==
                 [trunc EXCEPT
                    !.baseline.qubits = Append(@, bit),
                    !.custom.qubits = Append(@, bit),
                    !.layout = @ \cup {<<bit, physical_qubits[bit[2] + 1]>>}]
         IN  add_bits_always(added, Tail(qubits), nn, anc)

\* Lines 242-258: register bits and layout entries for the qubits of an
\* admitted instruction that sub-program i does not have yet.
RECURSIVE add_bits(_, _, _, _)
add_bits(trunc, qubits, nn, anc) ==
    IF qubits = <<>> THEN trunc
    ELSE LET qubit == Head(qubits)
             bit == mapping(qubit, nn, anc)
             physical_qubits == IF InSeq(nn, qubit) THEN nn ELSE anc
             added ==
                 IF ~InSeq(trunc.custom.qubits, bit)
                 THEN [trunc EXCEPT
                         !.baseline.qubits = Append(@, bit),
                         !.custom.qubits = Append(@, bit),
                         !.layout = @ \cup {<<bit, physical_qubits[bit[2] + 1]>>}]
                 ELSE trunc
         IN  add_bits(added, Tail(qubits), nn, anc)

\* What the parametrization callback appends: the custom gate on the target
\* register, carrying the placeholders it was given.
parametrized_circuit_func(circuit, params) ==
    [circuit EXCEPT !.data = Append(@, [op |-> "custom", qubits |-> tgt_register,
                                       params |-> <<params>>])]

\* A custom append that keeps the callback's gates only.
append_custom_targets_only(trunc, instruction, params_list, nn, anc) ==
    IF instruction # target_instruction
    THEN trunc
    ELSE [trunc EXCEPT
            !.custom = parametrized_circuit_func(@, params_list[trunc.counts]),
            !.counts = @ + 1]

\* Lines 263-278: the instruction itself in the custom sub-program, or the
\* callback's gate in place of a target instruction.
append_custom(trunc, instruction, params_list, nn, anc) ==
    IF instruction # target_instruction
    THEN [trunc EXCEPT !.custom.data = Append(@, mapped(instruction, nn, anc))]
    ELSE [trunc EXCEPT
            !.custom = parametrized_circuit_func(@, params_list[trunc.counts]),
            !.counts = @ + 1]

\* Lines 216-278 for sub-program i, from instruction p of the context on.
RECURSIVE truncate(_, _, _, _, _, _, _, _, _)
truncate(trunc, i, p, context, times, timings, params_list, nn, anc) ==
    IF p > Len(context.data) \/ p > Len(times) THEN trunc
    ELSE LET instruction == context.data[p]
             next ==
                 IF admitted(trunc.counts, i, times[p], timings, instruction, nn)
                 THEN LET with_bits == add_bits(trunc, involved_qubits(instruction, nn),
                                                nn, anc)
                          with_base == [with_bits EXCEPT !.baseline.data =
                                           Append(@, mapped(instruction, nn, anc))]
                      IN  append_custom(with_base, instruction, params_list, nn, anc)
                 ELSE trunc
         IN  truncate(next, i, p + 1, context, times, timings, params_list, nn, anc)

empty_truncation(i) ==
    [counts |-> 0,
     baseline |-> [name |-> <<"b_circ", i>>, qubits |-> tgt_register, data |-> <<>>],
     custom |-> [name |-> <<"c_circ", i>>, qubits |-> tgt_register, data |-> <<>>],
     layout |-> initial_layout]

\* define_target_and_circuits(), past its check for unassigned parameters:
\* (target, custom_circuits, baseline_circuits) for k occurrences, built
\* from the stored context, start times, timings, placeholders and the
\* stored neighbor sets.
define_target_and_circuits(k, context, times, timings, params_list, nn, anc) ==
    LET built == [i \in 0..(k - 1) |->
                    truncate(empty_truncation(i), i, 1, context, times, timings,
                             params_list, nn, anc)]
    IN  [target |-> [i \in 0..(k - 1) |->
                        [gate |-> target_instruction.op,
                         physical_qubits |-> physical_target_qubits,
                         circuit |-> built[i].baseline,
                         tgt_register |-> tgt_register,
                         layout |-> built[i].layout]],
         circuits |-> [i \in 0..(k - 1) |-> built[i].custom],
         baseline_circuits |-> [i \in 0..(k - 1) |-> built[i].baseline]]

count_targets(context) ==
    Cardinality({p \in DOMAIN context.data : context.data[p] = target_instruction})

\* define_target_and_circuits() called with the attributes `context`,
\* `times`, `timings`, `params` in place and the neighbor sets stored now.
rebuild(context, times, timings, params) ==
    LET built == define_target_and_circuits(
                     count_targets(context), context, times, timings, params,
                     physical_neighbor_qubits, physical_next_neighbor_qubits)
    IN  /\ target' = built.target
        /\ circuits' = built.circuits
        /\ baseline_circuits' = built.baseline_circuits

\* A call that builds the sub-programs again from what is stored.
context_rebuilt ==
    /\ rebuild(circuit_context, op_start_times, target_instruction_timings,
               parameters)
    /\ UNCHANGED <<circuit_context, op_start_times, target_instruction_timings,
                   parameters, backend, physical_neighbor_qubits,
                   physical_next_neighbor_qubits, unbound_circuit_context>>

\* reset() and step() assign none of the context's attributes and do not
\* call define_target_and_circuits().
context_kept == UNCHANGED context_vars

\* -------------------------------------------------------------- ActionBuffer
create_array(circ_trunc, batchsize, nact) ==
    [i \in 0..(circ_trunc - 1) |->
        [r \in 0..i |-> [b \in 0..(batchsize - 1) |-> [j \in 0..(nact - 1) |-> 0]]]]

\* np.hstack(level): each batch element's vectors side by side.
Flatten_hstack(level, rows, batch, nact) ==
    [b \in 0..(batch - 1) |->
        [c \in 0..(rows * nact - 1) |-> level[c \div nact][b][c % nact]]]

\* np.reshape(np.vstack(level), (batch, rows * nact)): the rows stacked,
\* read row-major, and cut into batch rows of rows * nact entries.
Flatten(level, rows, batch, nact) ==
    [b \in 0..(batch - 1) |->
        [c \in 0..(rows * nact - 1) |->
            LET e == b * rows * nact + c
                m == e \div nact
            IN  level[m \div batch][m % batch][e % nact]]]

\* ------------------------------------------------------ truncation selection
\* trunc_index read after the step counter moved: the index of the call after.
select_trunc_index_late(st) ==
    IF intermediate_rewards
    THEN (st + 1) % tgt_instruction_counts
    ELSE Min((st + 1) \div training_steps_per_gate, tgt_instruction_counts - 1)

\* trunc_index without the clamp at the last occurrence.
select_trunc_index_unclamped(st) ==
    IF intermediate_rewards
    THEN st % tgt_instruction_counts
    ELSE st \div training_steps_per_gate

\* The property trunc_index, read when the step counter is st.
select_trunc_index(st) ==
    IF intermediate_rewards
    THEN st % tgt_instruction_counts
    ELSE Min(st \div training_steps_per_gate, tgt_instruction_counts - 1)

trunc_index == select_trunc_index(step_tracker)

\* episode_length(global_step)
episode_length == 1 + trunc_index

\* ------------------------------------------------------------- observation
\* _get_obs() for sub-step tracker `tracker` and input-state index `idx`:
\* [progress, start time of the occurrence the tracker points at]; progress
\* is idx (over NumInputStates) for the "state" reward method, 0 otherwise.
get_obs(tracker, idx) ==
    IF reward_method = "state"
    THEN <<idx, target_instruction_timings[tracker + 1]>>
    ELSE <<0, target_instruction_timings[tracker + 1]>>

\* ------------------------------------------------------------ reward shaping
optimal_error_precision == 1        \* 1e-6, in millionths
max_fidelity == 1000000 - optimal_error_precision

\* A clip that bounds from above only.
clip_upper_only(x) == IF x > max_fidelity THEN max_fidelity ELSE x

\* np.clip(x, a_min=0.0, a_max=max_fidelity) of one finite component
clip(x) == IF x < 0 THEN 0 ELSE IF x > max_fidelity THEN max_fidelity ELSE x

\* -np.log(1.0 - x) in millionths, rounded, at the sample scores below 1.0
\* used here (the logarithm itself is tabulated, not computed)
neg_log(x) ==
    CASE x = -100000 -> -95310
      [] x = 0 -> 0
      [] x = 500000 -> 693147
      [] x = 900000 -> 2302585
      [] x = 999999 -> 13815511

\* lines 389-390 on a validated (finite) score vector
shape_reward(score) == [b \in DOMAIN score |-> Fin(neg_log(clip(score[b].v)))]

\* ------------------------------------------------------------------- inputs
\* An action batch of `len` action vectors; every entry names its seed,
\* batch element and component, so that distinct entries differ.
ActionBatch(seed, len) ==
    [b \in 0..(len - 1) |-> [j \in 0..(n_actions - 1) |-> 100 * seed + 10 * b + j + 1]]

ActionInputs ==
    {ActionBatch(seed, batch_size) : seed \in 1..MaxSeed}
        \cup {ActionBatch(1, batch_size + 1)}

ScoreVals == {0, 900000, 1200000}
BadVals == {NaN, Inf}

\* What perform_action may return: batch_size finite scores, or scores with
\* a NaN or an Inf as first component.
ScoreInputs ==
    {[b \in 1..batch_size |-> Fin(v)] : v \in ScoreVals}
        \cup {[b \in 1..batch_size |-> IF b = 1 THEN x ELSE Fin(900000)] :
                 x \in BadVals}

InputStates == 0..(NumInputStates - 1)

\* ------------------------------------------------------------------ results
\* What the history keeps of a score vector.
recorded(score) ==
    IF \E b \in DOMAIN score : isinf(score[b]) \/ isnan(score[b]) THEN <<>> ELSE score

NoUpdate == [new_context |-> <<>>, backend |-> "none", kwargs |-> <<>>,
             before |-> <<>>, via |-> ""]
NoHist == [calls |-> 0, steps |-> 0, trunc_at_reset |-> 0, written |-> {},
           performs |-> 0, actions |-> <<>>, score |-> <<>>,
           updates |-> 0, update |-> NoUpdate]

Result(call, kind, exc, obs, reward, terminated, truncated, t, s, params) ==
    [call |-> call, kind |-> kind, exc |-> exc, obs |-> obs, reward |-> reward,
     terminated |-> terminated, truncated |-> truncated,
     trunc_index |-> t, step_status |-> s, params |-> params]

Raise(exc, t, s) ==
    Result("step", "raise", exc, <<>>, <<>>, FALSE, FALSE, t, s, <<>>)

\* -------------------------------------------------------------------- Init
\* The environment is constructed with a backend (the line 0-1-2) and a
\* context without parameters in which the target occurs; the base class's
\* constructor derives the neighbor sets and builds the sub-programs.
NoRatio == [epoch |-> -1, mu |-> 0, sigma |-> 0, mu_old |-> 0, sigma_old |-> 0]
NoScriptHist == [initial |-> NoRatio, prev |-> NoRatio, last |-> NoRatio]

\* The training script is not run by the environment's callers.
ScriptNotRun ==
    /\ script_pc = "not_run" /\ epoch = 0
    /\ mu = 0 /\ sigma = 0 /\ mu_old = 0 /\ sigma_old = 0
    /\ combined_grads = <<0, 0>>
    /\ script_hist = NoScriptHist

EnvironmentInit ==
    /\ circuit_context \in Contexts
    /\ unbound_circuit_context = circuit_context
    /\ backend = "line_012"
    /\ physical_neighbor_qubits = neighbors_of(backend)
    /\ physical_next_neighbor_qubits = next_neighbors_of(backend)
    /\ op_start_times = instruction_timings(circuit_context)[1]
    /\ target_instruction_timings = instruction_timings(circuit_context)[2]
    /\ parameters = parameter_vectors(tgt_instruction_counts)
    /\ LET built == define_target_and_circuits(
                        tgt_instruction_counts, circuit_context, op_start_times,
                        target_instruction_timings, parameters,
                        physical_neighbor_qubits, physical_next_neighbor_qubits)
       IN  /\ target = built.target
           /\ circuits = built.circuits
           /\ baseline_circuits = built.baseline_circuits
    /\ training_steps_per_gate \in 1..MaxStepsPerGate
    /\ intermediate_rewards \in BOOLEAN
    /\ reward_method \in {"state", "channel"}
    /\ param_values = create_array(tgt_instruction_counts, batch_size, n_actions)
    /\ inside_trunc_tracker = 0
    /\ step_tracker = 0
    /\ episode_ended = FALSE
    /\ max_return = NegInf
    /\ index_input_state = 0
    /\ ret = Result("init", "init", "", <<>>, <<>>, FALSE, FALSE, 0, 0, <<>>)
    /\ hist = [NoHist EXCEPT !.trunc_at_reset = trunc_index]

Init == EnvironmentInit /\ ScriptNotRun

\* ------------------------------------------------------------------- reset
\* super().reset(): the base environment's reset "chooses a new input
\* state" and opens a new episode.
base_reset(idx) ==
    /\ episode_ended' = FALSE
    /\ index_input_state' = idx

\* A reset that keeps the buffer it finds.
ResetState_keep_buffer(idx) ==
    /\ base_reset(idx)
    /\ UNCHANGED param_values
    /\ inside_trunc_tracker' = 0

\* The state reset() leaves: the base class's reset, a fresh zero-filled
\* buffer, sub-step 0.
ResetState(idx) ==
    /\ base_reset(idx)
    /\ param_values' = create_array(tgt_instruction_counts, batch_size, n_actions)
    /\ inside_trunc_tracker' = 0

Reset(idx) ==
    /\ ResetState(idx)
    /\ ret' = Result("reset", "reset", "", get_obs(0, idx), <<>>, FALSE, FALSE,
                     trunc_index, 0, <<>>)
    /\ hist' = [hist EXCEPT !.steps = 0, !.trunc_at_reset = trunc_index,
                            !.written = {}, !.performs = 0, !.actions = <<>>,
                            !.score = <<>>]
    /\ context_kept
    /\ UNCHANGED <<config_vars, step_tracker, max_return, script_vars>>

\* -------------------------------------------------------------------- step
\* _get_obs() read before the tracker moved: the observation returned before.
intermediate_obs_stale(s) == get_obs(s, index_input_state)

\* Lines 360-361: the observation of an intermediate step without
\* intermediate rewards, _get_obs() read after the tracker moved on from s.
intermediate_obs(s) == get_obs(s + 1, index_input_state)

\* Lines 371-374: the observation of the final step.
terminal_obs(s, score) ==
    IF intermediate_rewards THEN score ELSE get_obs(s, index_input_state)

\* A step() on an ended episode that answers without resetting it.
StepEpisodeEnded_keep_ended(t, s) ==
    /\ ret' = Result("step", "auto_reset", "",
                     get_obs(inside_trunc_tracker, index_input_state),
                     zeros(batch_size), TRUE, FALSE, t, s, <<>>)
    /\ hist' = [hist EXCEPT !.calls = @ + 1]
    /\ UNCHANGED <<param_values, inside_trunc_tracker, episode_ended,
                   index_input_state, max_return>>

\* Lines 319-327: step() on an episode that has ended resets it.
StepEpisodeEnded(t, s) ==
    /\ \E idx \in InputStates :
          /\ ResetState(idx)
          /\ ret' = Result("step", "auto_reset", "", get_obs(0, idx),
                           zeros(batch_size), TRUE, FALSE, t, s, <<>>)
    /\ hist' = [hist EXCEPT !.calls = @ + 1, !.steps = 0,
                            !.trunc_at_reset = select_trunc_index(step_tracker + 1),
                            !.written = {}, !.performs = 0, !.actions = <<>>,
                            !.score = <<>>]
    /\ UNCHANGED max_return

\* Lines 329-339: the selected index is past the last occurrence.
StepTruncated(t, s) ==
    /\ \E idx \in InputStates :
          /\ ResetState(idx)
          /\ ret' = Result("step", "truncated", "", get_obs(0, idx),
                           zeros(batch_size), FALSE, TRUE, t, s, <<>>)
    /\ hist' = [hist EXCEPT !.calls = @ + 1, !.steps = 0,
                            !.trunc_at_reset = select_trunc_index(step_tracker + 1),
                            !.written = {}, !.performs = 0, !.actions = <<>>,
                            !.score = <<>>]
    /\ UNCHANGED max_return

\* Lines 342-345 (ValueError) and line 346 with a row index outside the
\* level's rows (numpy's IndexError): the call raises where it stands.
StepRaises(exc, t, s) ==
    /\ ret' = Raise(exc, t, s)
    /\ hist' = [hist EXCEPT !.calls = @ + 1, !.score = <<>>]
    /\ UNCHANGED <<param_values, inside_trunc_tracker, episode_ended, max_return,
                   index_input_state>>

\* Lines 351-366: an intermediate step within the truncation.
StepIntermediate(t, s, params) ==
    /\ inside_trunc_tracker' = inside_trunc_tracker + 1
    /\ IF intermediate_rewards
       THEN \E score \in ScoreInputs :          \* reward = perform_action(params)
               /\ ret' = Result("step", "intermediate", "", score, score,
                                FALSE, FALSE, t, s, params)
               /\ hist' = [hist EXCEPT !.calls = @ + 1, !.steps = @ + 1,
                                       !.written = @ \cup {<<t, s>>},
                                       !.performs = @ + 1,
                                       !.actions = Append(@, param_values'[t][s]),
                                       !.score = recorded(score)]
       ELSE /\ ret' = Result("step", "intermediate", "", intermediate_obs(s),
                             zeros(batch_size), FALSE, FALSE, t, s, <<>>)
            /\ hist' = [hist EXCEPT !.calls = @ + 1, !.steps = @ + 1,
                                    !.written = @ \cup {<<t, s>>},
                                    !.actions = Append(@, param_values'[t][s])]
    /\ UNCHANGED <<episode_ended, max_return, index_input_state>>

\* Lines 368-392: the final step of the truncation.
StepTerminal(t, s, params) ==
    /\ episode_ended' = TRUE
    /\ \E score \in ScoreInputs :                \* reward = perform_action(params)
          /\ hist' = [hist EXCEPT !.calls = @ + 1, !.steps = @ + 1,
                                  !.written = @ \cup {<<t, s>>},
                                  !.performs = @ + 1,
                                  !.actions = Append(@, param_values'[t][s]),
                                  !.score = recorded(score)]
          /\ max_return' = IF Gt(SumSeq(score), max_return)
                           THEN SumSeq(score) ELSE max_return
          /\ IF \E b \in DOMAIN score : isinf(score[b]) \/ isnan(score[b])
             THEN ret' = [Raise("AssertionError", t, s) EXCEPT !.params = params]
             ELSE ret' = Result("step", "terminal", "", terminal_obs(s, score),
                                shape_reward(score), TRUE, FALSE, t, s, params)
    /\ UNCHANGED <<inside_trunc_tracker, index_input_state>>

Step(action) ==
    /\ step_tracker < MaxStepTracker
    /\ step_tracker' = step_tracker + 1
    /\ context_kept
    /\ UNCHANGED <<config_vars, script_vars>>
    /\ LET t == trunc_index
           s == inside_trunc_tracker
           len == Cardinality(DOMAIN action)
       IN  IF episode_ended THEN
               StepEpisodeEnded(t, s)
           ELSE IF t >= tgt_instruction_counts THEN
               StepTruncated(t, s)
           ELSE IF len # batch_size THEN
               StepRaises("ValueError", t, s)
           ELSE IF t \notin DOMAIN param_values \/ s \notin DOMAIN param_values[t] THEN
               StepRaises("IndexError", t, s)
           ELSE
               LET written == [param_values EXCEPT ![t][s] = action]
                   params == Flatten(written[t], t + 1, batch_size, n_actions)
               IN  /\ param_values' = written
                   /\ IF s < t
                      THEN StepIntermediate(t, s, params)
                      ELSE StepTerminal(t, s, params)

\* ------------------------------------------------------ set_circuit_context
\* Contexts handed to set_circuit_context besides Context(k): one without
\* the target, one with single-qubit and next-neighbor gates around two
\* occurrences (some listed before an occurrence they start after), and one
\* with two unassigned parameters.
gate(op, qubits) == [op |-> op, qubits |-> qubits]
NoTargetContext ==
    [data |-> <<gate("h", <<1>>), gate("cx", <<1, 2>>)>>,
     op_start_times |-> <<0, 1>>, parameters |-> {}]
MixedContext ==
    [data |-> <<gate("h", <<1>>), gate("cx", <<1, 2>>), target_instruction,
                gate("h", <<2>>), neighbor_instruction, target_instruction,
                gate("h", <<1>>)>>,
     op_start_times |-> <<0, 1, 0, 2, 2, 3, 3>>, parameters |-> {}]
ParametrizedContext ==
    [data |-> <<gate("rz", <<1>>), target_instruction, gate("rz", <<2>>)>>,
     op_start_times |-> <<0, 1, 0>>, parameters |-> {"p", "q"}]
NewContexts ==
    Contexts \cup {NoTargetContext, MixedContext, ParametrizedContext}
KwargsInputs == {<<>>, <<"p">>, <<"p", "q">>, <<"p", "zz">>}

\* The for loop of lines 610-616 from kwargs[p] on: each named parameter is
\* assigned in place; a name the context does not have stops the loop.
RECURSIVE assign_parameters(_, _)
assign_parameters(context, kwargs) ==
    IF kwargs = <<>> THEN [context |-> context, found |-> TRUE]
    ELSE IF Head(kwargs) \in context.parameters
         THEN assign_parameters(
                  [context EXCEPT !.parameters = @ \ {Head(kwargs)}], Tail(kwargs))
         ELSE [context |-> context, found |-> FALSE]

ContextResult(kind, exc) ==
    Result("set_circuit_context", kind, exc, <<>>, <<>>, FALSE, FALSE, 0, 0, <<>>)

\* self._target[index] of a Python list: negative indices count from the end.
list_has_index(list, index) ==
    index \in DOMAIN list \/ (index < 0 /\ index + Cardinality(DOMAIN list) \in DOMAIN list)

\* Lines 621-632: the backend and the stored neighbor sets are replaced.
update_backend(be) ==
    IF be # "none"
    THEN /\ backend' = be
         /\ physical_neighbor_qubits' = neighbors_of(be)
         /\ physical_next_neighbor_qubits' = next_neighbors_of(be)
    ELSE UNCHANGED <<backend, physical_neighbor_qubits, physical_next_neighbor_qubits>>

\* set_circuit_context(new_context, backend): lines 571-607, then 621-632.
SetNewContext(new_context, be) ==
    LET k == count_targets(new_context)
        times == instruction_timings(new_context)[1]
        timings == instruction_timings(new_context)[2]
    IN  /\ circuit_context' = new_context
        /\ IF intermediate_rewards /\ k = 0
                \* self.target -> self.trunc_index: step_tracker % 0
           THEN /\ ret' = ContextResult("raise", "ZeroDivisionError")
                /\ UNCHANGED <<op_start_times, target_instruction_timings, parameters,
                               target, circuits, baseline_circuits, backend,
                               physical_neighbor_qubits,
                               physical_next_neighbor_qubits, param_values>>
           ELSE IF ~list_has_index(target, trunc_index')
                \* self.target -> self._target[self.trunc_index]
           THEN /\ ret' = ContextResult("raise", "IndexError")
                /\ UNCHANGED <<op_start_times, target_instruction_timings, parameters,
                               target, circuits, baseline_circuits, backend,
                               physical_neighbor_qubits,
                               physical_next_neighbor_qubits, param_values>>
           ELSE IF k = 0
           THEN /\ ret' = ContextResult("raise", "ValueError: Target gate not found in circuit context")
                /\ UNCHANGED <<op_start_times, target_instruction_timings, parameters,
                               target, circuits, baseline_circuits, backend,
                               physical_neighbor_qubits,
                               physical_next_neighbor_qubits, param_values>>
           ELSE /\ parameters' = parameter_vectors(k)
                /\ op_start_times' = times
                /\ target_instruction_timings' = timings
                /\ IF new_context.parameters # {}
                   THEN /\ ret' = ContextResult("raise", "ValueError: Circuit context still contains unassigned parameters")
                        /\ UNCHANGED <<target, circuits, baseline_circuits, backend,
                                       physical_neighbor_qubits,
                                       physical_next_neighbor_qubits, param_values>>
                   ELSE /\ rebuild(new_context, times, timings, parameter_vectors(k))
                        /\ param_values' = create_array(k, batch_size, n_actions)
                        /\ update_backend(be)
                        /\ ret' = ContextResult("updated", "")

\* set_circuit_context(backend=..., **kwargs): lines 609-619, then 621-632.
AssignContextParameters(be, kwargs) ==
    LET assigned == assign_parameters(circuit_context, kwargs)
    IN  /\ circuit_context' = assigned.context
        /\ UNCHANGED <<op_start_times, target_instruction_timings, parameters,
                       param_values>>
        /\ IF ~assigned.found
           THEN /\ ret' = ContextResult("raise", "ValueError: Parameter not found in circuit context")
                /\ UNCHANGED <<target, circuits, baseline_circuits, backend,
                               physical_neighbor_qubits,
                               physical_next_neighbor_qubits>>
           ELSE IF assigned.context.parameters # {}
           THEN /\ ret' = ContextResult("raise", "ValueError: Circuit context still contains unassigned parameters")
                /\ UNCHANGED <<target, circuits, baseline_circuits, backend,
                               physical_neighbor_qubits,
                               physical_next_neighbor_qubits>>
           ELSE /\ rebuild(assigned.context, op_start_times,
                           target_instruction_timings, parameters)
                /\ update_backend(be)
                /\ ret' = ContextResult("updated", "")

\* Lines 562-632.  new_context is <<>> for None or <<context>>; be is "none"
\* for None; via names the method the caller called.
set_circuit_context(new_context, be, kwargs, via) ==
    /\ UNCHANGED <<training_steps_per_gate, intermediate_rewards, reward_method,
                   inside_trunc_tracker, step_tracker, episode_ended, max_return,
                   index_input_state, script_vars>>
    /\ IF new_context # <<>>
       THEN SetNewContext(new_context[1], be)
       ELSE AssignContextParameters(be, kwargs)
    /\ hist' = [hist EXCEPT !.updates = @ + 1,
                            !.update = [new_context |-> new_context, backend |-> be,
                                        kwargs |-> kwargs,
                                        before |-> <<circuit_context>>,
                                        via |-> via]]

\* A call of set_circuit_context().
SetCircuitContext(new_context, be, kwargs) ==
    /\ set_circuit_context(new_context, be, kwargs, "set_circuit_context")
    /\ UNCHANGED unbound_circuit_context

\* Lines 544-553: set_unbound_circuit_context(new_context, **kwargs) stores
\* the context and passes a copy of it and the keyword arguments on.  An
\* exception of set_circuit_context() leaves through it; its own check of
\* line 552 finds no parameter left whenever set_circuit_context() returned.
SetUnboundCircuitContext(new_context, kwargs) ==
    /\ unbound_circuit_context' = new_context
    /\ set_circuit_context(<<new_context>>, "none", kwargs,
                           "set_unbound_circuit_context")

Next ==
    \/ \E idx \in InputStates : Reset(idx)
    \/ \E action \in ActionInputs : Step(action)

Spec == Init /\ [][Next]_vars

\* The standard loop of a caller: reset() once the episode has ended, and
\* action batches of the configured size only.
NominalReset(idx) == episode_ended /\ Reset(idx)
NominalStep(seed) == Step(ActionBatch(seed, batch_size))

NextNominal ==
    \/ \E idx \in InputStates : NominalReset(idx)
    \/ \E seed \in 1..MaxSeed : NominalStep(seed)

SpecNominal == Init /\ [][NextNominal]_vars

\* A caller that also updates the context.  A failed update is fatal: the
\* caller makes no further call, except that it may assign the parameters
\* of a context whose installation stopped on unassigned parameters.  Its
\* environment advances the curriculum at every step, the collaborator
\* scores every execution 0.9, it always passes the same action batch, and
\* every reset chooses input state 0.
MaxUpdates == 1         \* set_circuit_context calls made, retries apart
MaxRetries == 1         \* parameter assignments tried after such a stop
MaxUpdateStepTracker == 2   \* step() calls made by this caller

UpdateFailed == ret.call = "set_circuit_context" /\ ret.exc # ""
UnassignedReported ==
    /\ UpdateFailed
    /\ ret.exc = "ValueError: Circuit context still contains unassigned parameters"

\* The calls this caller makes: (new_context or <<>>, backend or "none",
\* names of the keyword arguments in order).
UpdateCall(new_context, be, kwargs) ==
    [new_context |-> new_context, backend |-> be, kwargs |-> kwargs]
UpdateInputs ==
    {UpdateCall(<<Context(1)>>, "none", <<>>),
     UpdateCall(<<Context(MaxK)>>, "line_021", <<>>),
     UpdateCall(<<NoTargetContext>>, "none", <<>>),
     UpdateCall(<<MixedContext>>, "none", <<>>),
     UpdateCall(<<MixedContext>>, "line_021", <<>>),
     UpdateCall(<<ParametrizedContext>>, "none", <<>>),
     UpdateCall(<<ParametrizedContext>>, "none", <<"p", "q">>),
     UpdateCall(<<>>, "line_021", <<>>),
     UpdateCall(<<>>, "line_012", <<>>)}
        \cup {UpdateCall(<<>>, "none", kwargs) : kwargs \in KwargsInputs}

UnboundInputs ==
    {UpdateCall(<<ParametrizedContext>>, "none", <<"p", "q">>),
     UpdateCall(<<ParametrizedContext>>, "none", <<"p">>),
     UpdateCall(<<MixedContext>>, "none", <<>>)}

Update(call) ==
    /\ \/ hist.updates < MaxUpdates /\ ~UpdateFailed
       \/ /\ UnassignedReported /\ call.new_context = <<>>
          /\ hist.updates < MaxUpdates + MaxRetries
    /\ SetCircuitContext(call.new_context, call.backend, call.kwargs)

UpdateUnbound(call) ==
    /\ hist.updates < MaxUpdates /\ ~UpdateFailed
    /\ SetUnboundCircuitContext(call.new_context[1], call.kwargs)

UpdateReset == ~UpdateFailed /\ NominalReset(0)
UpdateStep ==
    /\ ~UpdateFailed
    /\ step_tracker < MaxUpdateStepTracker
    /\ NominalStep(1)
    /\ hist'.score \in {<<>>, [b \in 1..batch_size |-> Fin(900000)]}
    /\ index_input_state' = 0

NextUpdate ==
    \/ UpdateReset
    \/ UpdateStep
    \/ \E call \in UpdateInputs : Update(call)
    \/ \E call \in UnboundInputs : UpdateUnbound(call)

InitUpdate == Init /\ training_steps_per_gate = 1 /\ reward_method = "channel"

SpecUpdate == InitUpdate /\ [][NextUpdate]_vars

\* ======================================================== training script
\* src/paper_results/yale_model_free_two_level_system_example.py, lines
\* 121-128 and the loop of lines 179-251, run with use_PPO = True.  The
\* samples, rewards, losses and the critic's baseline b are left out; the
\* clipped gradient of an epoch is any of -1, 0, 1 per parameter and the
\* optimizer moves a parameter one step against it.
MaxEpochs == 3          \* n_epochs of the modelled run
use_PPO == TRUE
MuInit == {-1, 0, 1}    \* tf.random.normal([], stddev=0.05)
Grads == {<<g_mu, g_sigma>> : g_mu \in {-1, 0, 1}, g_sigma \in {-1, 0, 1}}

\* Lines 121-128: sigma starts at 1.0 (two optimizer steps of eta = 0.5);
\* mu_old and sigma_old are new variables initialised with mu and sigma.
ScriptInit ==
    /\ mu \in MuInit
    /\ sigma = 2
    /\ mu_old = mu
    /\ sigma_old = sigma
    /\ combined_grads = <<0, 0>>
    /\ epoch = 0
    /\ script_pc = "sample"
    /\ script_hist = [NoScriptHist EXCEPT
                         !.initial = [NoRatio EXCEPT !.mu = mu, !.sigma = sigma]]

environment_kept ==
    UNCHANGED <<context_vars, config_vars, param_values, inside_trunc_tracker,
                step_tracker, episode_ended, max_return, index_input_state,
                ret, hist>>

\* Lines 181-186: actions are sampled from Normal(mu, sigma) and executed.
Sample ==
    /\ script_pc = "sample"
    /\ script_pc' = "loss"
    /\ UNCHANGED <<mu, sigma, mu_old, sigma_old, combined_grads, epoch,
                   script_hist>>
    /\ environment_kept

\* Lines 188-219: ratio = normal_distrib(a, mu, sigma) /
\* (sigma_eps + normal_distrib(a, mu_old, sigma_old)) and the losses.
ComputeLoss ==
    /\ script_pc = "loss"
    /\ script_pc' = "gradients"
    /\ script_hist' =
           IF use_PPO
           THEN [script_hist EXCEPT
                   !.prev = script_hist.last,
                   !.last = [epoch |-> epoch, mu |-> mu, sigma |-> sigma,
                             mu_old |-> mu_old, sigma_old |-> sigma_old]]
           ELSE script_hist
    /\ UNCHANGED <<mu, sigma, mu_old, sigma_old, combined_grads, epoch>>
    /\ environment_kept

\* Lines 221-229: the gradients of the combined loss, clipped.
ComputeGradients ==
    /\ script_pc = "gradients"
    /\ script_pc' = "assign_old"
    /\ combined_grads' \in Grads
    /\ UNCHANGED <<mu, sigma, mu_old, sigma_old, epoch, script_hist>>
    /\ environment_kept

\* Lines 230-241: the old parameters take the current values.
AssignOld ==
    /\ script_pc = "assign_old"
    /\ script_pc' = "apply"
    /\ IF use_PPO
       THEN mu_old' = mu /\ sigma_old' = sigma
       ELSE UNCHANGED <<mu_old, sigma_old>>
    /\ UNCHANGED <<mu, sigma, combined_grads, epoch, script_hist>>
    /\ environment_kept

\* An optimizer step after which the old parameters are set to the new values.
ApplyGradients_sync_old ==
    /\ script_pc = "apply"
    /\ mu' = mu - combined_grads[1]
    /\ sigma' = sigma - combined_grads[2]
    /\ mu_old' = mu'
    /\ sigma_old' = sigma'
    /\ epoch' = epoch + 1
    /\ script_pc' = IF epoch + 1 < MaxEpochs THEN "sample" ELSE "done"
    /\ UNCHANGED <<combined_grads, script_hist>>
    /\ environment_kept

\* Lines 243-251: optimizer.apply_gradients on the watched (trainable)
\* variables; then the next iteration of the loop of line 179.
ApplyGradients ==
    /\ script_pc = "apply"
    /\ mu' = mu - combined_grads[1]
    /\ sigma' = sigma - combined_grads[2]
    /\ epoch' = epoch + 1
    /\ script_pc' = IF epoch + 1 < MaxEpochs THEN "sample" ELSE "done"
    /\ UNCHANGED <<mu_old, sigma_old, combined_grads, script_hist>>
    /\ environment_kept

NextPPO ==
    \/ Sample
    \/ ComputeLoss
    \/ ComputeGradients
    \/ AssignOld
    \/ ApplyGradients

InitPPO ==
    /\ EnvironmentInit
    /\ circuit_context = Context(1)
    /\ training_steps_per_gate = 1
    /\ ~intermediate_rewards
    /\ reward_method = "channel"
    /\ ScriptInit

SpecPPO == InitPPO /\ [][NextPPO]_vars

\* =================================================================== claims
\* What the history records:
\*   hist.calls           step() calls made since construction
\*   hist.steps           step() calls of the current episode that returned
\*   hist.trunc_at_reset  trunc_index as it stood when the episode began
\*   hist.written         (level, row) pairs written in the current episode
\*   hist.performs        perform_action calls of the current episode
\*   hist.actions         action batches of the episode's step() calls that
\*                        returned, in call order
\*   hist.score           the scores perform_action returned to the last
\*                        call, when it was called and all were finite
Returned == ret.call = "step" /\ ret.kind \in {"intermediate", "terminal"}
ReachedTerminal ==
    ret.call = "step" /\ (ret.kind = "terminal" \/ ret.exc = "AssertionError")
WriteAttempted ==
    ret.call = "step"
        /\ (ret.kind \in {"intermediate", "terminal"}
               \/ ret.exc \in {"IndexError", "AssertionError"})

\* C1: an episode that began with truncation index i terminates at its
\* (i+1)-th step() call and at no other: a step() that returns has
\* terminated = TRUE exactly when it is call number i+1 of the episode.
C1_EpisodeTakesTruncIndexPlusOneSteps ==
    Returned => (ret.terminated <=> hist.steps = hist.trunc_at_reset + 1)

\* C2: whenever step() writes into the buffer, the row it writes lies in the
\* level it writes: 0 <= step_status <= trunc_index <= k - 1.
C2_WriteInsideLevel ==
    WriteAttempted =>
        /\ 0 <= ret.step_status
        /\ ret.step_status <= ret.trunc_index
        /\ ret.trunc_index <= tgt_instruction_counts - 1

\* C3: a terminal step whose score holds NaN or Inf raises and leaves the
\* episode not ended.
C3_InvalidScoreLeavesEpisodeOpen ==
    (ret.call = "step" /\ ret.exc = "AssertionError") => ~episode_ended

\* C4: a step() refused for its batch size leaves the buffer, the sub-step,
\* the selected truncation index and the ended flag as they were.
C4_BatchMismatchChangesNothing ==
    [][(ret'.call = "step" /\ ret'.exc = "ValueError" /\ ret' # ret) =>
          /\ param_values' = param_values
          /\ inside_trunc_tracker' = inside_trunc_tracker
          /\ episode_ended' = episode_ended
          /\ trunc_index' = trunc_index]_vars

\* C5: when the terminal step of level i is reached, rows 0..i of level i
\* have all been written by step() calls of that episode.
C5_TerminalLevelFullyWritten ==
    ReachedTerminal =>
        \A r \in 0..ret.trunc_index : <<ret.trunc_index, r>> \in hist.written

\* C6: without intermediate rewards, perform_action is called only by the
\* terminal step, once per episode, and then on a level whose rows 0..i were
\* all written in that episode; an intermediate step does not call it.
C6_ExecutedOnceOnFilledLevel ==
    ~intermediate_rewards =>
        /\ hist.performs <= 1
        /\ (ret.call = "step" /\ ret.kind = "intermediate") => ret.params = <<>>
        /\ (ret.call = "step" /\ ret.params # <<>>) =>
              /\ ReachedTerminal
              /\ hist.performs = 1
              /\ \A r \in 0..ret.trunc_index :
                    <<ret.trunc_index, r>> \in hist.written

\* C7: the truncation index a step() call uses is (calls made before it) mod k
\* with intermediate rewards and min((calls made before it) div
\* training_steps_per_gate, k - 1) without, and the step counter counts
\* every step() call, whatever branch the call took.
C7_TruncIndexFollowsCallCount ==
    /\ step_tracker = hist.calls
    /\ ret.call = "step" =>
          ret.trunc_index =
              IF intermediate_rewards
              THEN (hist.calls - 1) % tgt_instruction_counts
              ELSE Min((hist.calls - 1) \div training_steps_per_gate,
                       tgt_instruction_counts - 1)

\* C7 witness: a refused call made when the clamp already decides the index.
C7_Witness ==
    /\ ~intermediate_rewards
    /\ ret.call = "step" /\ ret.exc = "ValueError"
    /\ hist.calls >= 3
    /\ (hist.calls - 1) \div training_steps_per_gate > tgt_instruction_counts - 1
    /\ ret.trunc_index = tgt_instruction_counts - 1

\* C8: the selected truncation index always lies in 0..k-1, and no step()
\* takes the truncated branch or returns truncated = TRUE.
C8_NeverTruncated ==
    /\ trunc_index \in 0..(tgt_instruction_counts - 1)
    /\ ret.kind # "truncated"
    /\ ret.truncated = FALSE

\* C8 witness: a step() taken when step_tracker div training_steps_per_gate
\* had passed k - 1, so that only the clamp kept the index in range.
C8_Witness ==
    /\ ~intermediate_rewards
    /\ ret.call = "step" /\ ret.kind = "terminal"
    /\ (step_tracker - 1) \div training_steps_per_gate >= tgt_instruction_counts
    /\ ret.trunc_index = tgt_instruction_counts - 1

\* C9 as stated: without intermediate rewards, an intermediate step returns
\* zeros(batch_size), terminated = FALSE and the observation that the
\* preceding reset()/step() of the episode returned.
C9_ObservationUnchanged ==
    [][(/\ ~intermediate_rewards
        /\ ret'.call = "step" /\ ret'.kind = "intermediate"
        /\ hist'.calls = hist.calls + 1
        /\ ret.kind \in {"reset", "auto_reset", "intermediate"}) =>
          /\ ret'.reward = zeros(batch_size)
          /\ ret'.terminated = FALSE
          /\ ret'.obs = ret.obs]_vars

\* C9 as amended: without intermediate rewards, an intermediate step returns
\* zeros(batch_size), terminated = FALSE and the observation [progress,
\* start time of the occurrence the advanced sub-step counter points at]:
\* progress as before the call, the start time that of the next occurrence,
\* step_status + 1, not that of the occurrence just filled.
C9_ObservationAdvances ==
    (~intermediate_rewards /\ ret.call = "step" /\ ret.kind = "intermediate") =>
        /\ ret.reward = zeros(batch_size)
        /\ ret.terminated = FALSE
        /\ inside_trunc_tracker = ret.step_status + 1
        /\ ret.obs[1] = (IF reward_method = "state" THEN index_input_state ELSE 0)
        /\ ret.obs[2] = target_instruction_timings[ret.step_status + 2]

\* C9 witness: an intermediate step of a "state" episode on input state 1.
C9_Witness ==
    /\ ~intermediate_rewards
    /\ ret.call = "step" /\ ret.kind = "intermediate"
    /\ reward_method = "state" /\ index_input_state = 1
    /\ ret.step_status = 1

\* C10: with intermediate rewards, a step() that called perform_action
\* returns an observation equal to the reward of the same result.
C10_ObservationIsReward ==
    (/\ intermediate_rewards
     /\ ret.call = "step" /\ ret.kind \in {"intermediate", "terminal"}
     /\ ret.params # <<>>) => ret.obs = ret.reward

\* Row-major reading of a 0-based nrows x ncols array as a sequence.
RowMajor(mat, nrows, ncols) ==
    [e \in 1..(nrows * ncols) |-> mat[(e - 1) \div ncols][(e - 1) % ncols]]

RECURSIVE ConcatBlocks(_)
ConcatBlocks(blocks) ==
    IF blocks = <<>> THEN <<>>
    ELSE RowMajor(Head(blocks), batch_size, n_actions) \o ConcatBlocks(Tail(blocks))

\* The episode wrote rows 0..i of level i, one per step, and nothing else.
LevelFilledInOrder(i) ==
    /\ hist.written = {<<i, r>> : r \in 0..i}
    /\ Len(hist.actions) = i + 1

\* C11: once rows 0..i of level i are written, the array handed to
\* perform_action has shape (batch_size, (i+1) * action_dim) and, read
\* row-major, is the written blocks 0..i one after the other in sub-step
\* order, every element once and as it was passed in.
C11_FlattenKeepsBlocks ==
    (ReachedTerminal /\ LevelFilledInOrder(ret.trunc_index)) =>
        LET i == ret.trunc_index
            width == (i + 1) * n_actions
        IN  /\ DOMAIN ret.params = 0..(batch_size - 1)
            /\ \A b \in DOMAIN ret.params : DOMAIN ret.params[b] = 0..(width - 1)
            /\ RowMajor(ret.params, batch_size, width) = ConcatBlocks(hist.actions)

\* C11 witness: a terminal step of a level above 0 whose blocks came from
\* step() calls given different batches.
C11_Witness ==
    /\ ReachedTerminal /\ ret.trunc_index >= 1
    /\ LevelFilledInOrder(ret.trunc_index)
    /\ hist.actions[1] # hist.actions[2]

AllZero(level, rows) ==
    /\ DOMAIN level = 0..(rows - 1)
    /\ \A r \in DOMAIN level :
          /\ DOMAIN level[r] = 0..(batch_size - 1)
          /\ \A b \in DOMAIN level[r] :
                /\ DOMAIN level[r][b] = 0..(n_actions - 1)
                /\ \A j \in DOMAIN level[r][b] : level[r][b][j] = 0

\* C12: reset() leaves, for every level i in 0..k-1, an all-zero block of
\* shape (i+1, batch_size, action_dim) and sub-step 0, and does not touch
\* the step counter.
C12_ResetZeroFillsBuffer ==
    [][ret'.call = "reset" =>
          /\ DOMAIN param_values' = 0..(tgt_instruction_counts' - 1)
          /\ \A i \in DOMAIN param_values' : AllZero(param_values'[i], i + 1)
          /\ inside_trunc_tracker' = 0
          /\ step_tracker' = step_tracker]_vars

\* C12 witness: a reset() that follows a completed episode.
C12_Witness ==
    /\ ret.call = "reset" /\ hist.calls >= 2 /\ max_return.kind = "fin"
    /\ tgt_instruction_counts >= 2

SampleScores == {-100000, 0, 500000, 900000, 999999, 1000000, 1200000}

\* C20: the reward of a terminal step with finite scores is, per component,
\* -ln(1 - clip(score, 0, 1 - 1e-6)): finite, never negative, 0 for a score
\* of 0 (or below), and strictly increasing over the scores in [0, 1 - 1e-6].
C20_RewardIsNegLogOfClippedScore ==
    /\ (ret.call = "step" /\ ret.kind = "terminal") =>
          \A b \in DOMAIN ret.reward :
              /\ hist.score[b].kind = "fin"
              /\ ret.reward[b] = Fin(neg_log(clip(hist.score[b].v)))
              /\ ret.reward[b].v >= 0
              /\ hist.score[b].v <= 0 => ret.reward[b].v = 0
    /\ \A x \in SampleScores :
          /\ neg_log(clip(x)) >= 0
          /\ \A y \in SampleScores :
                (0 <= x /\ x < y /\ y <= max_fidelity) =>
                    neg_log(clip(x)) < neg_log(clip(y))
    /\ neg_log(clip(0)) = 0

\* C20 witness: a terminal step whose score was above 1 - 1e-6, so clipped.
C20_Witness ==
    /\ ret.call = "step" /\ ret.kind = "terminal"
    /\ hist.score[1] = Fin(1200000)
    /\ ret.reward[1] = Fin(13815511)

\* ----------------------------------------------------- context and truncator
Updated == ret.call = "set_circuit_context" /\ ret.kind = "updated"
IsTarget(instruction) == instruction.op = target_instruction.op
IsCustom(instruction) == instruction.op = "custom"
LayoutBits(layout) == {entry[1] : entry \in layout}

\* C13: reset() and step() leave the circuit context, the start times, the
\* placeholders, the baseline and custom sub-programs, the layouts and
\* targets, the backend and the neighbor sets exactly as they were.
C13_ResetAndStepKeepContext ==
    [][ret'.call \in {"reset", "step"} => context_vars' = context_vars]_vars

\* C13 witness: a reset() made after the backend was replaced, when a
\* rebuild would no longer reproduce the sub-programs in place.
C13_Witness ==
    /\ ret.call = "reset" /\ hist.updates >= 1
    /\ ~UpdateFailed
    /\ baseline_circuits #
           define_target_and_circuits(
               tgt_instruction_counts, circuit_context, op_start_times,
               target_instruction_timings, parameters,
               physical_neighbor_qubits,
               physical_next_neighbor_qubits).baseline_circuits

\* The sub-programs, layouts and targets a build from the stored context
\* with backend be's neighbor sets gives.
BuiltFor(be) ==
    define_target_and_circuits(
        tgt_instruction_counts, circuit_context, op_start_times,
        target_instruction_timings, parameters,
        neighbors_of(be), next_neighbors_of(be))

\* C14: when set_circuit_context returns from a call that gave a backend,
\* the sub-programs, layouts and targets in place are those built from that
\* backend's neighbor and next-neighbor sets.
C14_SubProgramsFollowNewBackend ==
    (Updated /\ hist.update.backend # "none") =>
        /\ backend = hist.update.backend
        /\ target = BuiltFor(backend).target
        /\ circuits = BuiltFor(backend).circuits
        /\ baseline_circuits = BuiltFor(backend).baseline_circuits

\* Everything stored describes the stored circuit context.
DescribesStoredContext ==
    LET k == tgt_instruction_counts
    IN  /\ op_start_times = instruction_timings(circuit_context)[1]
        /\ target_instruction_timings = instruction_timings(circuit_context)[2]
        /\ parameters = parameter_vectors(k)
        /\ DOMAIN param_values = 0..(k - 1)
        /\ \E be \in Backends :
              /\ target = BuiltFor(be).target
              /\ circuits = BuiltFor(be).circuits
              /\ baseline_circuits = BuiltFor(be).baseline_circuits

\* C15: after a context update that failed, the stored circuit context, the
\* start times, the placeholders, the ActionBuffer's shape and the
\* sub-programs all describe one and the same context.
C15_FailedUpdateLeavesOneContext ==
    UpdateFailed => DescribesStoredContext

\* C16: a context update whose new context has no occurrence of the target
\* fails with 'Target gate not found in circuit context' and with nothing
\* else, and the truncations in place are not replaced.
C16_NoTargetReportedAsTargetNotFound ==
    (/\ ret.call = "set_circuit_context"
     /\ hist.update.new_context # <<>>
     /\ count_targets(hist.update.new_context[1]) = 0) =>
        /\ ret.exc = "ValueError: Target gate not found in circuit context"
        /\ DOMAIN circuits # {}

\* C17: a parameter assignment (keyword values, no new context) that fails
\* leaves the stored circuit context as it was before the call.
C17_FailedAssignmentKeepsContext ==
    (UpdateFailed /\ hist.update.new_context = <<>>) =>
        circuit_context = hist.update.before[1]

\* C18: for a context with k >= 1 occurrences the truncator's lists have
\* exactly k elements each, and element i is occurrence i's: target i holds
\* baseline i and its layout, baseline i runs through occurrences 0..i, and
\* custom i holds the callback's gates for placeholders a_0..a_i in order.
C18_OneTruncationPerOccurrence ==
    ~UpdateFailed =>
        LET k == tgt_instruction_counts
        IN  /\ k >= 1
            /\ DOMAIN baseline_circuits = 0..(k - 1)
            /\ DOMAIN circuits = 0..(k - 1)
            /\ DOMAIN target = 0..(k - 1)
            /\ \A i \in 0..(k - 1) :
                  /\ target[i].circuit = baseline_circuits[i]
                  /\ baseline_circuits[i].name = <<"b_circ", i>>
                  /\ circuits[i].name = <<"c_circ", i>>
                  /\ Len(SelectSeq(baseline_circuits[i].data, IsTarget)) = i + 1
                  /\ SelectSeq(circuits[i].data, IsCustom) =
                        [j \in 1..(i + 1) |->
                            [op |-> "custom", qubits |-> tgt_register,
                             params |-> <<parameters[j - 1]>>]]

\* C18 witness: the truncations of the two-occurrence context with gates
\* around the occurrences, installed by a context update.
C18_Witness ==
    /\ Updated /\ circuit_context = MixedContext
    /\ Len(baseline_circuits[0].data) < Len(baseline_circuits[1].data)

\* C19: baseline and custom sub-program of an occurrence have the same
\* qubits, which are the ones its layout places, and the same instructions
\* position by position, except that where baseline holds the target
\* instruction custom holds the callback's gate.
C19_BaselineAndCustomDifferAtTargetOnly ==
    \A i \in DOMAIN baseline_circuits :
        LET base == baseline_circuits[i]
            cust == circuits[i]
        IN  /\ base.qubits = cust.qubits
            /\ LayoutBits(target[i].layout) = SeqRange(base.qubits)
            /\ Len(base.data) = Len(cust.data)
            /\ \A p \in DOMAIN base.data :
                  IF IsTarget(base.data[p])
                  THEN /\ IsCustom(cust.data[p])
                       /\ base.data[p].qubits = tgt_register
                  ELSE cust.data[p] = base.data[p]

\* C19 witness: sub-programs with nearest- and next-neighbor qubits and
\* with instructions before and after a target site.
C19_Witness ==
    /\ Updated /\ circuit_context = MixedContext
    /\ Len(baseline_circuits[1].qubits) = 3
    /\ ~IsTarget(baseline_circuits[1].data[Len(baseline_circuits[1].data)])

\* -------------------------------------------------------- best mean reward
\* C21: a terminal step whose scores fail the NaN/Inf validation does not
\* change the recorded best mean reward.
C21_FailedValidationKeepsBest ==
    [][(ret'.call = "step" /\ ret'.exc = "AssertionError") =>
          max_return' = max_return]_vars

\* ------------------------------------------------------- batch alignment
\* C26: row b of the array handed to perform_action is, sub-step after
\* sub-step, the action vector batch element b supplied at that sub-step.
C26_RowsAreBatchElements ==
    (ReachedTerminal /\ LevelFilledInOrder(ret.trunc_index)) =>
        \A b \in 0..(batch_size - 1) :
            \A r \in 0..ret.trunc_index :
                \A j \in 0..(n_actions - 1) :
                    ret.params[b][r * n_actions + j] = hist.actions[r + 1][b][j]

\* ------------------------------------------- step() on an ended episode
\* C27: a step() called on an ended episode writes no action and calls no
\* execution: it resets the episode (zero-filled buffer, sub-step 0, episode
\* open), returns an all-zero reward with terminated = True and counts as a
\* step; the step() after it runs at sub-step 0 of the fresh episode.
C27_StepOnEndedEpisodeResets ==
    [][/\ (episode_ended /\ ret'.call = "step") =>
              /\ ret'.kind = "auto_reset"
              /\ ret'.terminated /\ ~ret'.truncated
              /\ ret'.reward = zeros(batch_size)
              /\ ret'.params = <<>>
              /\ max_return' = max_return
              /\ step_tracker' = step_tracker + 1
              /\ param_values' =
                     create_array(tgt_instruction_counts, batch_size, n_actions)
              /\ inside_trunc_tracker' = 0
              /\ ~episode_ended'
       /\ (ret.kind = "auto_reset" /\ ret'.call = "step") =>
              /\ ret'.step_status = 0
              /\ ret'.kind # "auto_reset"]_vars

\* C27 witness: a step() that found the episode ended by a terminal step
\* whose actions were still in the buffer.
C27_Witness ==
    /\ ret.call = "step" /\ ret.kind = "auto_reset"
    /\ max_return.kind = "fin"
    /\ ~episode_ended /\ inside_trunc_tracker = 0

\* ------------------------------------------------------ observation space
\* C28: without intermediate rewards every observation returned by reset()
\* and step() has two components, both within [0, 1] (the first is
\* index_input_state over NumInputStates).
C28_ObservationInUnitBox ==
    (~intermediate_rewards /\ ret.call \in {"reset", "step"} /\ ret.exc = "") =>
        /\ Len(ret.obs) = 2
        /\ 0 <= ret.obs[1] /\ ret.obs[1] <= NumInputStates
        /\ 0 <= ret.obs[2] /\ ret.obs[2] <= 1

\* ------------------------------------------------------------------ layouts
\* the bits the instructions of a sub-program act on
TouchedBits(circuit) ==
    UNION {SeqRange(circuit.data[p].qubits) : p \in DOMAIN circuit.data}

\* C24: for every occurrence i the layout places exactly the qubits of
\* sub-program i; each qubit is in the program once, because an admitted
\* instruction touched it (or it is a target qubit), and has one layout
\* entry; no two qubits share a physical index; and the physical index of a
\* qubit is the index of the context qubit it stands for.
C24_LayoutPlacesEachQubitOnce ==
    \A i \in DOMAIN target :
        LET layout == target[i].layout
            qubits == baseline_circuits[i].qubits
        IN  /\ LayoutBits(layout) = SeqRange(qubits)
            /\ Cardinality(SeqRange(qubits)) = Len(qubits)
            /\ SeqRange(qubits) =
                   SeqRange(tgt_register) \cup TouchedBits(baseline_circuits[i])
            /\ \A e1, e2 \in layout :
                   (e1[1] = e2[1] \/ e1[2] = e2[2]) => e1 = e2
            /\ \E be \in Backends :
                   \A e \in layout :
                       e[1] = mapping(e[2], neighbors_of(be), next_neighbors_of(be))

\* C24 witness: a sub-program whose instructions touch the same neighbor
\* qubit more than once and a next-neighbor qubit as well.
C24_Witness ==
    \E i \in DOMAIN target :
        /\ Cardinality(target[i].layout) = 3
        /\ \E p, q \in DOMAIN baseline_circuits[i].data :
              /\ p < q
              /\ InSeq(baseline_circuits[i].data[p].qubits, <<"nn", 0>>)
              /\ InSeq(baseline_circuits[i].data[q].qubits, <<"nn", 0>>)

\* ------------------------------------------------- placeholders per level
\* the free parameters of a sub-program: the elements of the placeholder
\* vectors its gates carry
FreeParameters(circuit) ==
    UNION {{<<v.name, v.j, e>> : e \in 0..(v.len - 1)} :
              v \in UNION {SeqRange(circuit.data[p].params) :
                              p \in DOMAIN circuit.data}}

\* C25: custom sub-program i holds exactly i + 1 gates of the callback, the
\* j-th carrying placeholder vector a_j with j <= k - 1, so that it has
\* (i + 1) * n_actions free parameters; and the array a step() hands over
\* for level i has rows of that width.
C25_LevelWidthIsFreeParameterCount ==
    /\ ~UpdateFailed =>
          \A i \in DOMAIN circuits :
              LET calls == SelectSeq(circuits[i].data, IsCustom)
              IN  /\ Len(calls) = i + 1
                  /\ \A j \in 0..i :
                        /\ j <= tgt_instruction_counts - 1
                        /\ calls[j + 1].params =
                               <<[name |-> "a", j |-> j, len |-> n_actions]>>
                  /\ Cardinality(FreeParameters(circuits[i])) = (i + 1) * n_actions
    /\ (ret.call = "step" /\ ret.params # <<>>
           /\ ret.trunc_index \in DOMAIN circuits) =>
          \A b \in DOMAIN ret.params :
              Cardinality(DOMAIN ret.params[b]) =
                  Cardinality(FreeParameters(circuits[ret.trunc_index]))

\* C25 witness: a step() that handed over the array of level 1 of a context
\* with two occurrences.
C25_Witness ==
    /\ ret.call = "step" /\ ret.params # <<>>
    /\ ret.trunc_index = 1
    /\ DOMAIN ret.params[0] = 0..(2 * n_actions - 1)
    /\ Len(SelectSeq(circuits[1].data, IsCustom)) = 2

\* ---------------------------------------------------------------- admission
\* The positions of the stored context the stated rule admits into
\* truncation i, from position p on: an instruction that touches the target
\* register or a classified qubit and starts no later than occurrence i.
\* The classified qubits are the neighbor and next-neighbor qubits, either
\* all of them ("static") or those an admitted instruction of this
\* occurrence has touched so far ("dynamic").
RECURSIVE RuleAdmits(_, _, _, _, _)
RuleAdmits(i, p, classified, nn, anc) ==
    IF p > Len(circuit_context.data) THEN <<>>
    ELSE LET instruction == circuit_context.data[p]
             touches == \E q \in SeqRange(instruction.qubits) :
                            InSeq(circ_tgt_register, q) \/ q \in classified
             ok == touches /\ op_start_times[p] <= target_instruction_timings[i + 1]
             now == IF ok
                    THEN classified \cup
                            {q \in SeqRange(instruction.qubits) :
                                InSeq(nn, q) \/ InSeq(anc, q)}
                    ELSE classified
         IN  (IF ok THEN <<p>> ELSE <<>>) \o RuleAdmits(i, p + 1, now, nn, anc)

RuleProgram(i, be, reading) ==
    LET nn == neighbors_of(be)
        anc == next_neighbors_of(be)
        start == IF reading = "static" THEN SeqRange(nn) \cup SeqRange(anc) ELSE {}
        positions == RuleAdmits(i, 1, start, nn, anc)
    IN  [n \in DOMAIN positions |-> mapped(circuit_context.data[positions[n]], nn, anc)]

\* C23: baseline sub-program i holds exactly the instructions of the context
\* that touch the target register or an already classified neighbor or
\* next-neighbor qubit and start no later than occurrence i.
C23_AdmittedIffClassifiedAndNoLater ==
    ~UpdateFailed =>
        \E be \in Backends, reading \in {"static", "dynamic"} :
            \A i \in DOMAIN baseline_circuits :
                baseline_circuits[i].data = RuleProgram(i, be, reading)

\* ------------------------------------------------- unbound circuit context
\* C22: set_unbound_circuit_context called with a parametrized context in
\* which the target occurs, and with a keyword argument for every parameter
\* of it, installs that context with its parameters assigned and builds its
\* targets and truncations.
C22_UnboundContextWithAllValuesInstalled ==
    (/\ ret.call = "set_circuit_context"
     /\ hist.update.via = "set_unbound_circuit_context"
     /\ hist.update.new_context[1].parameters # {}
     /\ hist.update.new_context[1].parameters \subseteq SeqRange(hist.update.kwargs)
     /\ count_targets(hist.update.new_context[1]) >= 1) =>
        /\ Updated
        /\ circuit_context.parameters = {}
        /\ circuit_context.data = hist.update.new_context[1].data
        /\ DOMAIN circuits = 0..(tgt_instruction_counts - 1)
        /\ DOMAIN target = 0..(tgt_instruction_counts - 1)

\* ------------------------------------------------------- old policy (PPO)
\* C29: whenever the ratio has been computed, the mu_old and sigma_old it
\* read were, in epoch 0, the initial mu and sigma and, in epoch i >= 1, the
\* mu and sigma the ratio of epoch i - 1 read.
C29_OldParametersLagOneEpoch ==
    LET r == script_hist.last
        before == IF r.epoch = 0 THEN script_hist.initial ELSE script_hist.prev
    IN  r.epoch >= 0 =>
            /\ r.mu_old = before.mu
            /\ r.sigma_old = before.sigma
            /\ r.epoch >= 1 => script_hist.prev.epoch = r.epoch - 1

\* C29 witness: a ratio of a later epoch computed with old parameters that
\* differ from the current ones and from the initial ones.
C29_Witness ==
    /\ script_pc = "gradients"
    /\ script_hist.last.epoch >= 2
    /\ script_hist.last.mu_old # script_hist.last.mu
    /\ script_hist.last.mu_old # script_hist.initial.mu
    /\ script_hist.last.sigma_old # script_hist.last.sigma

====
